---- MODULE Spec2Model ----
(***************************************************************************)
(* Model of src/auto_blogger.py: one invocation of run() (authenticate,    *)
(* load posted_ids.json, fetch the JSON API and the RSS feed, then rewrite,*)
(* publish and record each article), and a sequence of such invocations    *)
(* against the same posted_ids.json.                                       *)
(*                                                                         *)
(* A unique_id is the string the f-string builds: "json_" or "rss_"        *)
(* followed by the item's numeric id or the entry's link.                  *)
(***************************************************************************)
EXTENDS Integers, Sequences, FiniteSets, TLC

\* ------------------------------------------------------------------ bounds
\* Longest item list a source serves in one response.
MaxItems == 2
\* Invocations of run() in one behaviour of SpecRuns.
MaxRuns == 2
\* The run cap. The source sets 999 (line 19); the model scales it down so
\* that a queue can be longer than the cap.
MAX_POSTS_PER_RUN == 2

\* --------------------------------------------------------------- constants
\* save_posted_id keeps the last 200 ids (lines 235-236).
KEEP_LAST == 200

\* required_categories of fetch_json_news (line 181); the two Nepali names
\* are written in ASCII: "share_market" and "economy".
required_categories == {"share_market", "economy"}

\* ------------------------------------------------------------------ inputs
Item(id, cat) == [id |-> id, category_name |-> cat]

\* What the JSON API can list: item 7 is allow-listed, item 8 is served
\* under an allow-listed or under another category.
ApiItemUniverse ==
    {Item(7, "share_market"), Item(8, "economy"), Item(8, "sports")}

\* The links the feed can list.
LinkUniverse == {"http://a/1", "http://a/2"}

SeqsUpTo(S, n) == UNION {[1..k -> S] : k \in 0..n}

\* Ids of older feed entries, which fill a long posted_ids.json.
Old(n) == [k \in 1..n |-> "rss_http://a/" \o ToString(100 + k)]

AbsentFile == [state |-> "absent", ids |-> <<>>]
CorruptFile == [state |-> "corrupt", ids |-> <<>>]
ListFile(ids) == [state |-> "list", ids |-> ids]

\* posted_ids.json before the first run: missing, not JSON, or a list that
\* save_posted_id wrote earlier (so of at most KEEP_LAST ids).
InitFiles ==
    {AbsentFile, CorruptFile,
     ListFile(<<"rss_http://a/1">>),
     ListFile(<<"json_8">> \o Old(KEEP_LAST - 2))}

\* The smaller input sets of the multi-run specification.
RunsFiles ==
    {ListFile(<<>>), ListFile(<<"json_7">> \o Old(KEEP_LAST - 1))}
RunsApi == {<<Item(7, "share_market"), Item(8, "sports")>>, <<Item(8, "economy")>>}
RunsFeed == {<<"http://a/1", "http://a/2">>, <<"http://a/1", "http://a/1">>}

\* ------------------------------------------------------------------- state
VARIABLES
    pc,             \* where run() stands
    run,            \* number of the current invocation
    db_file,        \* posted_ids.json (DB_FILE)
    apiItems,       \* the item list the JSON API serves
    feedLinks,      \* the links of the entries the feed serves
    service,        \* run(): service
    posted_ids,     \* run(): posted_ids, the list save_posted_id appends to
    json_articles,  \* run(): json_articles
    rss_articles,   \* run(): rss_articles
    all_articles,   \* run(): all_articles
    i,              \* position of the for loop in all_articles
    count,          \* run(): count
    apiOutcome,     \* how the JSON request of this run ended
    feedOutcome,    \* how the feed request of this run ended
    loaded,         \* history: what get_posted_ids returned in this run
    db0,            \* history: posted_ids.json when this run started
    trace,          \* history: the calls of this run, in order
    prev_failed,    \* history: ids the previous run queued and did not post
    prev_posted     \* history: ids earlier runs posted and saved

vars == <<pc, run, db_file, apiItems, feedLinks, service, posted_ids,
          json_articles, rss_articles, all_articles, i, count, apiOutcome,
          feedOutcome, loaded, db0, trace, prev_failed, prev_posted>>

Terminal == {"done", "aborted", "crashed"}

Event(op, idx, ok) == [op |-> op, idx |-> idx, ok |-> ok]

\* ------------------------------------------------------- helper functions
\* Python's `x in list`.
InList(x, s) == \E k \in 1..Len(s) : s[k] = x

\* Python's s[-n:] for n > 0.
LastSlice(s, n) == IF Len(s) <= n THEN s ELSE SubSeq(s, Len(s) - n + 1, Len(s))

\* ------------------------------------------------------------ get_service
\* key: SERVICE_ACCOUNT_JSON ("unset", "valid", "invalid"); token:
\* token.pickle ("missing", "good", "bad"); secret: client_secret.json
\* ("missing", "authorized", "failed"). The result is the handle or None.
get_service(key, token, secret) ==
    IF key # "unset"
    THEN (IF key = "valid" THEN "handle" ELSE "none")
    ELSE IF token = "good" THEN "handle"
    ELSE IF secret # "missing"
         THEN (IF secret = "authorized" THEN "handle" ELSE "none")
         ELSE "none"

\* Variant of AfterAuth: the missing handle is not checked.
AfterAuth_Continue(svc) == "load"

\* run() lines 248-252: without a handle run() returns at once.
AfterAuth(svc) == IF svc = "none" THEN "aborted" ELSE "load"

\* -------------------------------------------------------- fetch_json_news
\* Line 184.
JsonUid(item) == "json_" \o ToString(item.id)

JsonArticle(item) ==
    [unique_id |-> JsonUid(item), source |-> "bajarkochirfar.com"]

\* Variant of JsonKeep: the category is not checked.
JsonKeep_NoCategory(item, ids) == ~InList(JsonUid(item), ids)

\* The condition of line 185.
JsonKeep(item, ids) ==
    /\ item.category_name \in required_categories
    /\ ~InList(JsonUid(item), ids)

\* The for loop of lines 183-193.
RECURSIVE JsonLoop(_, _, _)
JsonLoop(items, ids, articles) ==
    IF items = <<>> THEN articles
    ELSE JsonLoop(Tail(items), ids,
                  IF JsonKeep(Head(items), ids)
                  THEN Append(articles, JsonArticle(Head(items)))
                  ELSE articles)

\* How a request to the JSON API can end:
\*   "error"     requests.get, raise_for_status or response.json() raises
\*               (caught, lines 168-174);
\*   "nosuccess" the envelope's success flag is false or missing (176-178);
\*   "badshape"  the body is JSON of another shape (a list, or data that is
\*               no list of objects): data.get / item.get raises outside
\*               the try;
\*   "ok"        success is true and data is the item list.
ApiOutcomes == {"error", "nosuccess", "badshape", "ok"}

\* The outcomes of fetch_json_news that raise out of it.
JsonRaises(kind) == kind = "badshape"

\* The list fetch_json_news returns when it returns.
fetch_json_news(kind, items, ids) ==
    IF kind = "ok" THEN JsonLoop(items, ids, <<>>) ELSE <<>>

\* --------------------------------------------------------- fetch_rss_news
\* Line 208.
RssUid(link) == "rss_" \o link

RssArticle(link) == [unique_id |-> RssUid(link), source |-> "nepsestock.com"]

\* Variant of RssKeep: no membership test.
RssKeep_NoFilter(link, ids) == TRUE

\* The condition of line 209.
RssKeep(link, ids) == ~InList(RssUid(link), ids)

\* The for loop of lines 207-220.
RECURSIVE RssLoop(_, _, _)
RssLoop(links, ids, articles) ==
    IF links = <<>> THEN articles
    ELSE RssLoop(Tail(links), ids,
                 IF RssKeep(Head(links), ids)
                 THEN Append(articles, RssArticle(Head(links)))
                 ELSE articles)

\* How a request to the feed can end:
\*   "error"       feedparser.parse raises (caught, lines 201-205);
\*   "unreachable" feedparser.parse returns a feed without entries;
\*   "malformed"   an entry has no link, no title, or neither summary nor
\*                 content: the attribute access raises outside the try;
\*   "ok"          the entries are the feed's.
FeedOutcomes == {"error", "unreachable", "malformed", "ok"}

RssRaises(kind) == kind = "malformed"

fetch_rss_news(kind, links, ids) ==
    IF kind = "ok" THEN RssLoop(links, ids, <<>>) ELSE <<>>

\* --------------------------------------------------------- posted_ids.json
\* Variant of SaveAppend: the id is added to a copy, the caller's list is
\* left as it was.
SaveAppend_Copy(post_id, current_ids) == current_ids

\* save_posted_id line 234: append to the caller's list.
SaveAppend(post_id, current_ids) == Append(current_ids, post_id)

\* Variant of SaveDump: the slice [:200] instead of [-200:].
SaveDump_KeepFirst(current_ids) ==
    IF Len(current_ids) > KEEP_LAST
    THEN SubSeq(current_ids, 1, KEEP_LAST)
    ELSE current_ids

\* save_posted_id lines 235-238: what is dumped to the file. The slice is
\* bound to the function's own name, the caller's list stays as appended.
SaveDump(current_ids) ==
    IF Len(current_ids) > KEEP_LAST
    THEN LastSlice(current_ids, KEEP_LAST)
    ELSE current_ids

\* ------------------------------------------------------------------- run()
\* Variant of CapReached: > instead of >=.
CapReached_OffByOne(c) == c > MAX_POSTS_PER_RUN

\* Line 265.
CapReached(c) == c >= MAX_POSTS_PER_RUN

\* Variants of AfterRewrite: the result is not tested, and the test
\* inverted.
AfterRewrite_IgnoreFailure(ai_result) == "publish"
AfterRewrite_Inverted(ai_result) == IF ai_result THEN "loop" ELSE "publish"

\* Line 280: the branch after rewrite_with_gemini.
AfterRewrite(ai_result) == IF ai_result THEN "publish" ELSE "loop"

\* Variants of AfterPublish: the id is saved whatever create_post returned,
\* and the test inverted.
AfterPublish_AlwaysSave(success) == "save"
AfterPublish_Inverted(success) == IF success THEN "loop" ELSE "save"

\* Line 283: the branch after create_post.
AfterPublish(success) == IF success THEN "save" ELSE "loop"

Log(op, idx, ok) == trace' = Append(trace, Event(op, idx, ok))

\* Lines 246-250.
GetService ==
    /\ pc = "init"
    /\ \E key \in {"unset", "valid", "invalid"},
          token \in {"missing", "good", "bad"},
          secret \in {"missing", "authorized", "failed"} :
          service' = get_service(key, token, secret)
    /\ pc' = AfterAuth(service')
    /\ Log("get_service", 0, service' = "handle")
    /\ UNCHANGED <<run, db_file, apiItems, feedLinks, posted_ids,
                   json_articles, rss_articles, all_articles, i, count,
                   apiOutcome, feedOutcome, loaded, db0, prev_failed,
                   prev_posted>>

\* Variant of LoadRaises: a file that cannot be parsed is taken as no file.
LoadRaises_Never(file) == FALSE

\* get_posted_ids lines 228-229: open or json.load raises on a file that
\* cannot be read or is not JSON.
LoadRaises(file) == file.state = "corrupt"

\* Line 252, get_posted_ids (225-230): nothing in run() catches what
\* json.load raises.
GetPostedIds ==
    /\ pc = "load"
    /\ IF LoadRaises(db_file)
       THEN /\ pc' = "crashed"
            /\ UNCHANGED <<posted_ids, loaded>>
       ELSE /\ posted_ids' = (IF db_file.state = "list" THEN db_file.ids ELSE <<>>)
            /\ loaded' = posted_ids'
            /\ pc' = "fetch_json"
    /\ Log("get_posted_ids", 0, ~LoadRaises(db_file))
    /\ UNCHANGED <<run, db_file, apiItems, feedLinks, service,
                   json_articles, rss_articles, all_articles, i, count,
                   apiOutcome, feedOutcome, db0, prev_failed,
                   prev_posted>>

\* Line 255.
FetchJson ==
    /\ pc = "fetch_json"
    /\ \E kind \in ApiOutcomes :
          /\ apiOutcome' = kind
          /\ IF JsonRaises(kind)
             THEN /\ pc' = "crashed"
                  /\ UNCHANGED json_articles
             ELSE /\ json_articles' = fetch_json_news(kind, apiItems, posted_ids)
                  /\ pc' = "fetch_rss"
          /\ Log("fetch_json_news", 0, ~JsonRaises(kind))
    /\ UNCHANGED <<run, db_file, apiItems, feedLinks, service, posted_ids,
                   rss_articles, all_articles, i, count, feedOutcome,
                   loaded, db0, prev_failed,
                   prev_posted>>

\* Variant of BuildQueue: the feed's articles first.
BuildQueue_RssFirst(from_json, from_rss) == from_rss \o from_json

\* Line 257.
BuildQueue(from_json, from_rss) == from_json \o from_rss

\* Lines 256-261.
FetchRss ==
    /\ pc = "fetch_rss"
    /\ \E kind \in FeedOutcomes :
          /\ feedOutcome' = kind
          /\ IF RssRaises(kind)
             THEN /\ pc' = "crashed"
                  /\ UNCHANGED <<rss_articles, all_articles, i, count>>
             ELSE /\ rss_articles' = fetch_rss_news(kind, feedLinks, posted_ids)
                  /\ all_articles' = BuildQueue(json_articles, rss_articles')
                  /\ count' = 0
                  /\ i' = 1
                  /\ pc' = "loop"
          /\ Log("fetch_rss_news", 0, ~RssRaises(kind))
    /\ UNCHANGED <<run, db_file, apiItems, feedLinks, service, posted_ids,
                   json_articles, apiOutcome, loaded, db0, prev_failed,
                   prev_posted>>

\* Lines 264-280 and 287-288: the next article is taken unless the cap is
\* reached, and rewrite_with_gemini returns a result or None.
Rewrite ==
    /\ pc = "loop"
    /\ i <= Len(all_articles)
    /\ ~CapReached(count)
    /\ \E ai_result \in BOOLEAN :
          /\ pc' = AfterRewrite(ai_result)
          /\ i' = (IF pc' = "loop" THEN i + 1 ELSE i)
          /\ Log("rewrite_with_gemini", i, ai_result)
    /\ UNCHANGED <<run, db_file, apiItems, feedLinks, service, posted_ids,
                   json_articles, rss_articles, all_articles, count,
                   apiOutcome, feedOutcome, loaded, db0, prev_failed,
                   prev_posted>>

\* Lines 281-283: create_post returns True or False.
Publish ==
    /\ pc = "publish"
    /\ \E success \in BOOLEAN :
          /\ pc' = AfterPublish(success)
          /\ i' = (IF pc' = "loop" THEN i + 1 ELSE i)
          /\ Log("create_post", i, success)
    /\ UNCHANGED <<run, db_file, apiItems, feedLinks, service, posted_ids,
                   json_articles, rss_articles, all_articles, count,
                   apiOutcome, feedOutcome, loaded, db0, prev_failed,
                   prev_posted>>

\* Lines 284-285, save_posted_id (232-238).
Save ==
    /\ pc = "save"
    /\ posted_ids' = SaveAppend(all_articles[i].unique_id, posted_ids)
    /\ db_file' = ListFile(SaveDump(posted_ids'))
    /\ count' = count + 1
    /\ pc' = "sleep"
    /\ Log("save_posted_id", i, TRUE)
    /\ UNCHANGED <<run, apiItems, feedLinks, service, json_articles,
                   rss_articles, all_articles, i, apiOutcome, feedOutcome,
                   loaded, db0, prev_failed,
                   prev_posted>>

\* Line 286.
Sleep ==
    /\ pc = "sleep"
    /\ i' = i + 1
    /\ pc' = "loop"
    /\ Log("sleep", i, TRUE)
    /\ UNCHANGED <<run, db_file, apiItems, feedLinks, service, posted_ids,
                   json_articles, rss_articles, all_articles, count,
                   apiOutcome, feedOutcome, loaded, db0, prev_failed,
                   prev_posted>>

\* Lines 264-267 and 290: the queue is exhausted or the cap stops the loop.
Finish ==
    /\ pc = "loop"
    /\ (i > Len(all_articles) \/ CapReached(count))
    /\ pc' = "done"
    /\ UNCHANGED <<run, db_file, apiItems, feedLinks, service, posted_ids,
                   json_articles, rss_articles, all_articles, i, count,
                   apiOutcome, feedOutcome, loaded, db0, trace, prev_failed,
                   prev_posted>>

\* ----------------------------------------------------- history, per run
Calls(op) == {k \in DOMAIN trace : trace[k].op = op}

\* Queue positions passed to rewrite_with_gemini, to create_post, posted
\* (create_post returned True) and saved in this run.
RewrittenIdx == {trace[k].idx : k \in Calls("rewrite_with_gemini")}
RewriteOkIdx ==
    {trace[k].idx : k \in {c \in Calls("rewrite_with_gemini") : trace[c].ok}}
PublishedIdx == {trace[k].idx : k \in Calls("create_post")}
PostedIdx == {trace[k].idx : k \in {c \in Calls("create_post") : trace[c].ok}}
SavedIdx == {trace[k].idx : k \in Calls("save_posted_id")}

\* The ids saved in this run, in the order of the saves.
RECURSIVE SavedFrom(_)
SavedFrom(k) ==
    IF k > Len(trace) THEN <<>>
    ELSE IF trace[k].op = "save_posted_id"
         THEN <<all_articles[trace[k].idx].unique_id>> \o SavedFrom(k + 1)
         ELSE SavedFrom(k + 1)
SavedIds == SavedFrom(1)

UidsAt(S) == {all_articles[k].unique_id : k \in S}

\* ------------------------------------------------------ the first run
InitRun ==
    /\ pc = "init"
    /\ run = 1
    /\ service = "unset"
    /\ posted_ids = <<>>
    /\ json_articles = <<>>
    /\ rss_articles = <<>>
    /\ all_articles = <<>>
    /\ i = 0
    /\ count = 0
    /\ apiOutcome = "none"
    /\ feedOutcome = "none"
    /\ loaded = <<>>
    /\ db0 = db_file
    /\ trace = <<>>
    /\ prev_failed = {}
    /\ prev_posted = {}

Init ==
    /\ db_file \in InitFiles
    /\ apiItems \in SeqsUpTo(ApiItemUniverse, MaxItems)
    /\ feedLinks \in SeqsUpTo(LinkUniverse, MaxItems)
    /\ InitRun

Next ==
    \/ GetService
    \/ GetPostedIds
    \/ FetchJson
    \/ FetchRss
    \/ Rewrite
    \/ Publish
    \/ Save
    \/ Sleep
    \/ Finish

\* One invocation of run(), for every input of Init.
Spec == Init /\ [][Next]_vars

\* ------------------------------------------------------ successive runs
InitRuns ==
    /\ db_file \in RunsFiles
    /\ apiItems \in RunsApi
    /\ feedLinks \in RunsFeed
    /\ InitRun

\* The process has ended and the scheduler starts run() again, on the file
\* the last run left; the sources may list other items by then.
NewRun ==
    /\ pc \in Terminal
    /\ run < MaxRuns
    /\ run' = run + 1
    /\ apiItems' \in RunsApi
    /\ feedLinks' \in RunsFeed
    /\ prev_failed' = UidsAt(1..Len(all_articles)) \ UidsAt(PostedIdx)
    /\ prev_posted' = prev_posted \cup UidsAt(SavedIdx)
    /\ pc' = "init"
    /\ service' = "unset"
    /\ posted_ids' = <<>>
    /\ json_articles' = <<>>
    /\ rss_articles' = <<>>
    /\ all_articles' = <<>>
    /\ i' = 0
    /\ count' = 0
    /\ apiOutcome' = "none"
    /\ feedOutcome' = "none"
    /\ loaded' = <<>>
    /\ db0' = db_file
    /\ trace' = <<>>
    /\ UNCHANGED db_file

NextRuns == Next \/ NewRun

\* Up to MaxRuns invocations of run(), one after the other.
SpecRuns == InitRuns /\ [][NextRuns]_vars

\* ------------------------------------------- a run the environment fails
Rest == <<run, apiItems, feedLinks, service, json_articles, rss_articles,
          all_articles, i, count, apiOutcome, feedOutcome, loaded, db0,
          prev_failed, prev_posted>>

\* posted_ids.json when the process is killed inside save_posted_id.
\* open(DB_FILE, 'w') (line 237) empties the file and json.dump (line 238)
\* writes the text piece by piece into it: the file is as it was (killed
\* before the open), empty, a text that stops short of the end, or the whole
\* new list. An empty or unfinished text is not JSON.
FileAtKill(old, new_ids) ==
    {old,
     [state |-> "corrupt", ids |-> <<>>],
     [state |-> "corrupt", ids |-> SubSeq(new_ids, 1, Len(new_ids) - 1)],
     ListFile(new_ids)}

\* The process is killed from outside (no handler in the source): anywhere
\* in run(), and inside save_posted_id (lines 234-238) in particular.
Kill ==
    /\ pc \notin Terminal \cup {"killed"}
    /\ pc' = "killed"
    /\ IF pc = "save"
       THEN /\ posted_ids' = SaveAppend(all_articles[i].unique_id, posted_ids)
            /\ db_file' \in FileAtKill(db_file, SaveDump(posted_ids'))
       ELSE UNCHANGED <<posted_ids, db_file>>
    /\ Log("kill", i, pc # "save")
    /\ UNCHANGED Rest

\* save_posted_id lines 234-237: the append is done, open(DB_FILE, 'w')
\* raises OSError (the file or its directory is not writable); nothing in
\* save_posted_id or run() catches it, so run() ends there.
SaveRaises ==
    /\ pc = "save"
    /\ posted_ids' = SaveAppend(all_articles[i].unique_id, posted_ids)
    /\ pc' = "crashed"
    /\ Log("save_raises", i, FALSE)
    /\ UNCHANGED db_file
    /\ UNCHANGED Rest

NextFaults == Next \/ Kill \/ SaveRaises

\* One invocation of run() in which the process can be killed and the file
\* write can fail.
SpecFaults == InitRuns /\ [][NextFaults]_vars

\* ------------------------------------------------- a run that is scheduled
InitLive ==
    /\ db_file \in {AbsentFile, CorruptFile}
    /\ apiItems \in RunsApi
    /\ feedLinks \in RunsFeed
    /\ InitRun

\* run() is sequential code that the interpreter keeps executing: a step
\* that can be taken is taken.
SpecLive == InitLive /\ [][Next]_vars /\ WF_vars(Next)

\* ------------------------------------------------- vocabulary of the claims
Range(s) == {s[k] : k \in DOMAIN s}

\* The last n entries of s, all of s when it has at most n.
TailOf(s, n) ==
    LET m == IF Len(s) < n THEN Len(s) ELSE n
    IN  [k \in 1..m |-> s[Len(s) - m + k]]

\* Queue positions whose publish call returned failure.
PublishFailedIdx ==
    {trace[k].idx : k \in {c \in Calls("create_post") : ~trace[c].ok}}
RewriteFailedIdx ==
    {trace[k].idx : k \in {c \in Calls("rewrite_with_gemini") : ~trace[c].ok}}

\* The run has built its queue.
InLoop == pc \in {"loop", "publish", "save", "sleep", "done"}

C2_SaveOnlyAfterPublish ==
    LET saves == Calls("save_posted_id")
        saved == SavedIdx
    IN  /\ \A k \in saves :
              /\ k > 1
              /\ trace[k - 1] = Event("create_post", trace[k].idx, TRUE)
        /\ saved \subseteq PostedIdx
        /\ saved \subseteq RewriteOkIdx
        /\ saved \cap (RewriteFailedIdx \cup PublishFailedIdx) = {}
        /\ (db_file # db0 => saved # {})
        /\ Len(posted_ids) = Len(loaded) + Cardinality(saves)
        /\ (pc = "save" => trace[Len(trace)] = Event("create_post", i, TRUE))

\* A save has happened in a run in which another entry failed.
C2_Witness ==
    /\ pc = "sleep"
    /\ SavedIdx # {}
    /\ RewriteFailedIdx # {}
    /\ PublishFailedIdx # {}

\* C3: once a run has saved, posted_ids.json holds the last KEEP_LAST
\* entries of the loaded sequence followed by the ids saved so far, in that
\* order, and never more than KEEP_LAST entries.
C3_BoundedStore ==
    /\ (db_file.state = "list" => Len(db_file.ids) <= KEEP_LAST)
    /\ (SavedIdx # {} =>
          /\ db_file.state = "list"
          /\ db_file.ids = TailOf(loaded \o SavedIds, KEEP_LAST))

\* Two saves on top of a file one short of full: the first fills it, the
\* second evicts its oldest entry.
C3_Witness ==
    /\ pc = "done"
    /\ Len(loaded) = KEEP_LAST - 1
    /\ Len(SavedIds) >= 2
    /\ Len(db_file.ids) = KEEP_LAST
    /\ db_file.ids[1] = loaded[2]

\* The members of the set S of queue positions that are before position k.
Before(S, k) == Cardinality({p \in S : p < k})

\* Posts that succeeded before queue position k.
PostsBefore(k) == Before(PostedIdx, k)

C5_FatalAbort ==
    /\ (service = "none" => pc = "aborted")
    /\ (pc = "aborted" =>
          /\ service = "none"
          /\ trace = <<Event("get_service", 0, FALSE)>>
          /\ db_file = db0
          /\ posted_ids = <<>>
          /\ apiOutcome = "none"
          /\ feedOutcome = "none"
          /\ all_articles = <<>>)

\* An aborted run that had a file to load and articles to fetch.
C5_Witness ==
    /\ pc = "aborted"
    /\ db_file.state = "list"
    /\ db_file.ids # <<>>
    /\ apiItems # <<>>
    /\ feedLinks # <<>>

\* C6: no article an adapter returns, and so no article of the queue, has
\* a unique_id of the sequence loaded for the run, which is the sequence
\* both adapters are given.
C6_IdempotentDedup ==
    LET seen == Range(loaded)
    IN  /\ (pc \in {"fetch_json", "fetch_rss"} => posted_ids = loaded)
        /\ \A k \in DOMAIN json_articles : json_articles[k].unique_id \notin seen
        /\ \A k \in DOMAIN rss_articles : rss_articles[k].unique_id \notin seen
        /\ \A k \in DOMAIN all_articles : all_articles[k].unique_id \notin seen

\* The scenario of the specification: posted_ids.json holds rss_http://a/1,
\* the feed lists http://a/1 and http://a/2, the feed adapter returns only
\* rss_http://a/2.
C6_Witness ==
    /\ loaded = <<"rss_http://a/1">>
    /\ feedLinks = <<"http://a/1", "http://a/2">>
    /\ feedOutcome = "ok"
    /\ rss_articles = <<[unique_id |-> "rss_http://a/2", source |-> "nepsestock.com"]>>
    /\ InLoop
    /\ Range(rss_articles) \subseteq Range(all_articles)

\* C7 as stated: when the request of one adapter fails in any way, the
\* adapter contributes no article and run() goes on, to the other adapter
\* and then to the queue made of the other adapter's articles.
C7_SourceIsolation ==
    /\ (apiOutcome \notin {"none", "ok"} =>
          /\ json_articles = <<>>
          /\ (feedOutcome = "none" => pc = "fetch_rss"))
    /\ (feedOutcome \notin {"none", "ok"} =>
          /\ rss_articles = <<>>
          /\ InLoop
          /\ all_articles = json_articles)

\* The items of the response that line 185 accepts, with the allow-list
\* written out.
AllowedUnseen ==
    LET seen == Range(loaded)
    IN  SelectSeq(apiItems,
                  LAMBDA it : /\ it.category_name \in {"share_market", "economy"}
                              /\ "json_" \o ToString(it.id) \notin seen)

\* C8: the API adapter returns exactly the allow-listed items whose id is
\* not already seen, in the order of the response; an item of another
\* category yields no article, in the adapter's output or in the queue.
C8_CategoryFilter ==
    /\ (apiOutcome = "ok" =>
          LET kept == AllowedUnseen
          IN  /\ Len(json_articles) = Len(kept)
              /\ \A k \in DOMAIN json_articles :
                    json_articles[k].unique_id = "json_" \o ToString(kept[k].id))
    /\ \A k \in DOMAIN all_articles :
          all_articles[k].source = "bajarkochirfar.com" =>
              \E j \in DOMAIN apiItems :
                  /\ all_articles[k].unique_id = "json_" \o ToString(apiItems[j].id)
                  /\ apiItems[j].category_name \in {"share_market", "economy"}

\* The scenario of the specification: item 7 is allow-listed, item 8 is
\* not, and the queue holds json_7 alone.
C8_Witness ==
    /\ apiItems = <<Item(7, "share_market"), Item(8, "sports")>>
    /\ apiOutcome = "ok"
    /\ loaded = <<>>
    /\ feedLinks = <<>>
    /\ pc = "done"
    /\ all_articles = <<[unique_id |-> "json_7", source |-> "bajarkochirfar.com"]>>

\* The source's response of this run lists the article with id x (for the
\* API, under an allow-listed category).
Offered(x) ==
    \/ /\ apiOutcome = "ok"
       /\ \E j \in DOMAIN apiItems :
             /\ x = "json_" \o ToString(apiItems[j].id)
             /\ apiItems[j].category_name \in {"share_market", "economy"}
    \/ /\ feedOutcome = "ok"
       /\ \E j \in DOMAIN feedLinks : x = "rss_" \o feedLinks[j]

QueuedIds == UidsAt(1..Len(all_articles))

\* An article (a unique_id) that the run queued and did not post is not
\* among the ids the run saved.
FailedIsNotSaved ==
    \A x \in QueuedIds \ UidsAt(PostedIdx) : x \notin Range(SavedIds)

\* C9 as stated: an article the run did not post is absent from the run's
\* saves, and the next run, when the source still offers it, queues it and
\* passes it to the rewrite again.
C9_FailedIsRetriedNextRun ==
    /\ FailedIsNotSaved
    /\ ((run > 1 /\ pc = "done") =>
          \A x \in prev_failed :
              Offered(x) => (x \in QueuedIds /\ x \in UidsAt(RewrittenIdx)))

\* C9 amended: an article the run did not post is absent from the run's
\* saves; the next run, when it gets as far as its queue and the source
\* still offers the article, queues it again; and it passes it to the
\* rewrite exactly when fewer than MAX_POSTS_PER_RUN posts succeeded before
\* its turn.
C9_FailedIsRefetchedNextRun ==
    /\ FailedIsNotSaved
    /\ ((run > 1 /\ InLoop) =>
          \A x \in prev_failed : Offered(x) => x \in QueuedIds)
    /\ ((run > 1 /\ pc = "done") =>
          \A k \in 1..Len(all_articles) :
              all_articles[k].unique_id \in prev_failed =>
                  (k \in RewrittenIdx <=> PostsBefore(k) < MAX_POSTS_PER_RUN))

\* A second run that posted an article the first run had failed on, and
\* that the cap kept from another such article.
C9_Witness ==
    /\ run = 2
    /\ pc = "done"
    /\ \E k \in PostedIdx : all_articles[k].unique_id \in prev_failed
    /\ \E k \in (1..Len(all_articles)) \ RewrittenIdx :
          all_articles[k].unique_id \in prev_failed

\* C10 as stated: after a save the list run() goes on with is the list that
\* was written to posted_ids.json.
C10_MemoryIsPersisted ==
    SavedIdx # {} =>
        /\ posted_ids = db_file.ids
        /\ db_file.ids = TailOf(loaded \o SavedIds, KEEP_LAST)

\* C10 amended: a save appends the id to the list run() goes on with and
\* does not truncate that list; posted_ids.json receives the last KEEP_LAST
\* entries of it, so the two are the same list only while the list in
\* memory has at most KEEP_LAST entries.
C10_SaveResult ==
    [][pc = "save" =>
          /\ posted_ids' = Append(posted_ids, all_articles[i].unique_id)
          /\ db_file' = [state |-> "list", ids |-> TailOf(posted_ids', KEEP_LAST)]
          /\ (db_file'.ids = posted_ids' <=> Len(posted_ids') <= KEEP_LAST)]_vars

\* Right after a save that evicted: the list in memory is longer than the
\* list in the file.
C10_Witness ==
    /\ pc = "sleep"
    /\ Len(posted_ids) > KEEP_LAST
    /\ Len(db_file.ids) = KEEP_LAST
    /\ posted_ids # db_file.ids

\* posted_ids.json as the last completed save of the run left it.
FileBeforeSave ==
    IF SavedIdx = {} THEN db0
    ELSE ListFile(TailOf(loaded \o SavedIds, KEEP_LAST))

\* The process was killed inside save_posted_id.
KilledInSave ==
    /\ pc = "killed"
    /\ Len(trace) > 1
    /\ trace[Len(trace) - 1] = Event("create_post", i, TRUE)

\* C11 as stated: at every point of a run, a kill inside a save included,
\* posted_ids.json holds the whole sequence of before the save or the whole
\* new sequence, never an empty or unfinished one.
C11_AtomicSave ==
    LET before == FileBeforeSave
        after ==
            ListFile(TailOf(Append(loaded \o SavedIds, all_articles[i].unique_id),
                            KEEP_LAST))
    IN  IF KilledInSave THEN db_file \in {before, after} ELSE db_file = before

\* C12: when posted_ids.json does not exist, get_posted_ids returns the
\* empty list and the run goes on to the sources; when it exists and cannot
\* be read or parsed, get_posted_ids raises, run() ends there, no source is
\* asked, nothing is rewritten, published or saved, and the file is left as
\* it was.
C12_LoadAbsentOrCorrupt ==
    /\ (db0.state = "absent" /\ Len(trace) >= 2) =>
          /\ trace[2] = Event("get_posted_ids", 0, TRUE)
          /\ loaded = <<>>
          /\ (Len(trace) = 2 => (pc = "fetch_json" /\ posted_ids = <<>>))
    /\ db0.state = "corrupt" =>
          /\ pc \in {"init", "load", "aborted", "crashed"}
          /\ (Len(trace) >= 2 =>
                /\ pc = "crashed"
                /\ trace = <<Event("get_service", 0, TRUE),
                             Event("get_posted_ids", 0, FALSE)>>)
          /\ db_file = db0
          /\ apiOutcome = "none"
          /\ feedOutcome = "none"
          /\ all_articles = <<>>

\* A run that ended at the load of a file that is not JSON, with articles
\* waiting at both sources.
C12_Witness ==
    /\ pc = "crashed"
    /\ db0 = CorruptFile
    /\ db_file = CorruptFile
    /\ apiItems # <<>>
    /\ feedLinks # <<>>

\* The step is a call of rewrite_with_gemini that returns None.
RewriteFails ==
    /\ Len(trace') = Len(trace) + 1
    /\ trace'[Len(trace')] = Event("rewrite_with_gemini", i, FALSE)

\* C13: a queue entry whose rewrite failed is never passed to create_post
\* or saved, and the iteration in which the rewrite fails leaves the list in
\* memory, posted_ids.json and count as they were and moves on to the next
\* entry.
C13_RewriteFailureNoEffect ==
    /\ [](RewriteFailedIdx \cap (PublishedIdx \cup SavedIdx) = {})
    /\ [][RewriteFails =>
              /\ posted_ids' = posted_ids
              /\ db_file' = db_file
              /\ count' = count
              /\ pc' = "loop"
              /\ i' = i + 1]_vars

\* A rewrite has just failed in a run that had already posted and saved an
\* article and has another entry left.
C13_Witness ==
    /\ pc = "loop"
    /\ count >= 1
    /\ i <= Len(all_articles)
    /\ trace[Len(trace)] = Event("rewrite_with_gemini", i - 1, FALSE)

\* C14 as stated: in one run no unique_id is appended to the list twice and
\* no unique_id is posted twice, whatever the sources list.
C14_NoReaddWithinRun ==
    /\ Cardinality(Range(SavedIds)) = Len(SavedIds)
    /\ \A k, l \in PostedIdx :
          all_articles[k].unique_id = all_articles[l].unique_id => k = l

\* Pairs <<a, b>> of trace positions of two successive create_post calls.
SuccessivePublishes ==
    LET calls == Calls("create_post")
    IN  {p \in calls \X calls :
            /\ p[1] < p[2]
            /\ \A c \in calls : ~(p[1] < c /\ c < p[2])}

SleepBetween(a, b) == \E k \in Calls("sleep") : a < k /\ k < b

\* C15 as stated: between any two successive create_post calls of a run
\* there is a pacing sleep, whether the first of them succeeded or failed.
C15_PacingBetweenAttempts ==
    \A p \in SuccessivePublishes : SleepBetween(p[1], p[2])

\* C15 amended: the pacing sleep is the step right after a save, so it
\* follows every successful publish and no failed one: between two
\* successive create_post calls there is a sleep exactly when the first of
\* them returned True.
C15_PacingAfterPosts ==
    /\ \A p \in SuccessivePublishes :
          SleepBetween(p[1], p[2]) <=> trace[p[1]].ok
    /\ \A k \in Calls("sleep") :
          /\ k > 2
          /\ trace[k - 1] = Event("save_posted_id", trace[k].idx, TRUE)
          /\ trace[k - 2] = Event("create_post", trace[k].idx, TRUE)
    /\ \A k \in Calls("save_posted_id") :
          k < Len(trace) => trace[k + 1] = Event("sleep", trace[k].idx, TRUE)

\* A finished run with a failed publish followed by the next publish
\* without a sleep, and a successful one followed by a sleep and a publish.
C15_Witness ==
    /\ pc = "done"
    /\ \E p \in SuccessivePublishes :
          ~trace[p[1]].ok /\ ~SleepBetween(p[1], p[2])
    /\ \E p \in SuccessivePublishes :
          trace[p[1]].ok /\ SleepBetween(p[1], p[2])

\* The links of the response whose id is not in the loaded sequence, in the
\* order of the response.
UnseenLinks ==
    LET seen == Range(loaded)
    IN  SelectSeq(feedLinks, LAMBDA l : "rss_" \o l \notin seen)

\* C16: the queue is the API adapter's articles followed by the feed
\* adapter's, each in the order its source listed them, and the loop passes
\* the queue entries to the rewrite in queue order, one after the other
\* from the first on.
C16_QueueOrder ==
    LET rewrites == Calls("rewrite_with_gemini")
    IN  /\ InLoop =>
              /\ Len(all_articles) = Len(json_articles) + Len(rss_articles)
              /\ \A k \in DOMAIN json_articles : all_articles[k] = json_articles[k]
              /\ \A k \in DOMAIN rss_articles :
                    all_articles[Len(json_articles) + k] = rss_articles[k]
              /\ (apiOutcome = "ok" =>
                    LET kept == AllowedUnseen
                    IN  json_articles =
                            [k \in 1..Len(kept) |->
                                [unique_id |-> "json_" \o ToString(kept[k].id),
                                 source |-> "bajarkochirfar.com"]])
              /\ (feedOutcome = "ok" =>
                    LET kept == UnseenLinks
                    IN  rss_articles =
                            [k \in 1..Len(kept) |->
                                [unique_id |-> "rss_" \o kept[k],
                                 source |-> "nepsestock.com"]])
        /\ \A a, b \in rewrites : a < b => trace[a].idx < trace[b].idx
        /\ RewrittenIdx = 1..Cardinality(rewrites)
        /\ \A c \in Calls("create_post") :
              trace[c - 1] = Event("rewrite_with_gemini", trace[c].idx, TRUE)

\* A finished run whose queue had an API article and two feed articles and
\* attempted all three.
C16_Witness ==
    /\ pc = "done"
    /\ Len(json_articles) >= 1
    /\ Len(rss_articles) = 2
    /\ rss_articles[1] # rss_articles[2]
    /\ RewrittenIdx = 1..Len(all_articles)

\* run() has built its queue (line 257 was reached).
QueueBuilt == feedOutcome \in {"ok", "error", "unreachable"}

\* C17 as stated: no error raised while one article is handled ends the
\* loop: when the run is over, every queue entry before which fewer than
\* MAX_POSTS_PER_RUN posts succeeded has been passed to the rewrite; and no
\* entry is passed to the rewrite or to create_post more than once.
C17_ArticleErrorsIsolated ==
    LET rewrites == Calls("rewrite_with_gemini")
        publishes == Calls("create_post")
    IN  /\ Cardinality(rewrites) = Cardinality(RewrittenIdx)
        /\ Cardinality(publishes) = Cardinality(PublishedIdx)
        /\ (QueueBuilt /\ pc \in {"done", "crashed"}) =>
              RewrittenIdx =
                  {k \in 1..Len(all_articles) :
                      PostsBefore(k) < MAX_POSTS_PER_RUN}

\* A call of the run raised instead of returning: get_posted_ids or one of
\* the adapters, the only calls of run() that raise in this specification.
CallRaised ==
    /\ pc = "crashed"
    /\ trace # <<>>
    /\ ~trace[Len(trace)].ok
    /\ trace[Len(trace)].op \in
           {"get_posted_ids", "fetch_json_news", "fetch_rss_news"}

\* C18: a run that gets a handle and in which every call returns reaches
\* DONE, with its queue exhausted or the cap reached; the loop takes at
\* most as many entries as the queue has; a run without a handle ends
\* ABORTED. (A run ends otherwise only when a call raised.)
C18_Termination ==
    /\ [](Cardinality(Calls("rewrite_with_gemini")) <= Len(all_articles))
    /\ [](i <= Len(all_articles) + 1)
    /\ [](pc = "done" => (i > Len(all_articles) \/ count >= MAX_POSTS_PER_RUN))
    /\ [](pc = "aborted" <=> service = "none")
    /\ [](pc = "crashed" => CallRaised)
    /\ (pc = "init") ~> (pc \in {"aborted", "done"} \/ CallRaised)
    /\ (service = "handle") ~> (pc = "done" \/ CallRaised)
    /\ (pc = "loop") ~> (pc = "done")

\* A run that ended at the cap with queue entries left.
C18_Witness ==
    /\ pc = "done"
    /\ service = "handle"
    /\ count = MAX_POSTS_PER_RUN
    /\ i <= Len(all_articles)

\* C19: count is the number of saves of the run and the number of ids
\* appended to the list since the load, and never more than
\* MAX_POSTS_PER_RUN; whenever the loop stands between two entries, and at
\* DONE, it is the number of create_post calls that returned True. (While
\* the id of the article just posted is being saved, lines 284-285, that
\* post is not counted yet.)
C19_CounterAccuracy ==
    LET posts == Cardinality(Calls("create_post") \cap {k \in DOMAIN trace : trace[k].ok})
        saves == Cardinality(Calls("save_posted_id"))
    IN  /\ count = saves
        /\ Len(posted_ids) = Len(loaded) + count
        /\ count <= MAX_POSTS_PER_RUN
        /\ (pc \in {"loop", "publish", "sleep", "done"} => count = posts)
        /\ (pc = "save" => count = posts - 1)

\* A finished run that reports as many posts as the cap allows, after a
\* failed rewrite and a failed publish.
C19_Witness ==
    /\ pc = "done"
    /\ count = MAX_POSTS_PER_RUN
    /\ Cardinality(PostedIdx) = MAX_POSTS_PER_RUN
    /\ RewriteFailedIdx # {}
    /\ PublishFailedIdx # {}
    /\ Len(posted_ids) = Len(loaded) + MAX_POSTS_PER_RUN

\* C20: an id that an earlier run posted and saved and that is among the
\* entries this run loaded is not in this run's queue and is not passed to
\* create_post again; an id of an earlier run that this run posts again was
\* not among the entries of posted_ids.json when this run started.
C20_CrossRunDedup ==
    LET seen == Range(loaded)
        queued == QueuedIds
        published == UidsAt(PublishedIdx)
        persisted == Range(db0.ids)
    IN  run > 1 =>
            /\ \A x \in prev_posted \cap seen :
                  x \notin queued /\ x \notin published
            /\ \A x \in prev_posted \cap UidsAt(PostedIdx) : x \notin persisted

\* A second run to which the feed offers again an article the first run
\* posted: the article is left out of the queue while another one is posted.
C20_Witness ==
    /\ run = 2
    /\ pc = "done"
    /\ count >= 1
    /\ \E x \in prev_posted \cap Range(loaded) :
          Offered(x) /\ x \notin QueuedIds

====
